---- MODULE Spec2Model ----
(***************************************************************************)
(* Model of the biadnet bitcoin adaptor (src/src/p2p_bitcoin.rs and the    *)
(* older binary src/src/biadnet/main.rs):                                  *)
(*   - KeepConnected, the future that keeps min_connections outbound peer  *)
(*     sessions alive (poll / peers_from_db / dns_lookup);                 *)
(*   - BitcoinDriver / Driver, the Downstream that forwards header         *)
(*     notifications to the ContentStore;                                  *)
(*   - ChainDBTrunk, the read-only Trunk view over the shared ChainDB.     *)
(***************************************************************************)
EXTENDS Integers, Sequences, FiniteSets, TLC

\* ---------------------------------------------------------------- bounds
\* largest min_connections explored
MaxMin == 3
\* largest number of initial peers handed to keep_connected
MaxPeers == 2
\* the per-round counters (queries, iters) saturate here
MaxCount == 4
\* notifications delivered to the driver in one run
MaxEvents == 6
\* queries the reader of the trunk view makes in one run
MaxReads == 2

\* min_connections as BitcoinAdaptor::init passes it
InitMinConnections == 3

\* candidate socket addresses
Addrs == {"A", "B"}

\* results dns_seed can return: a Vec<SocketAddr>, possibly empty
DnsResults == {<<>>, <<"A">>, <<"B">>, <<"A", "B">>}

\* behaviours of the DNS seeding subsystem over the life of the task
DnsSources == {"empty", "nonempty", "any"}

VARIABLES
    min_connections,   \* KeepConnected.min_connections
    connections,       \* KeepConnected.connections: Vec of session futures
    dns,               \* KeepConnected.dns: Vec<SocketAddr>
    earlier,           \* KeepConnected.earlier: HashSet<SocketAddr>
    pc,                \* position of the maintenance task inside poll
    notified,          \* the executor has been told to poll the task
    outcome,           \* the value the last call of poll returned
    dnsSource,         \* which results dns_seed produces in this run
    queries,           \* dns_seed calls in the current dns_lookup call
    iters,             \* loop iterations in the current dns_lookup call
    owed,              \* a session was removed and none was started since
    short,             \* ... and the removal left the pool below the target
    seeded,            \* how many initial peers keep_connected was given
    asked,             \* the sources consulted so far in the current pass
    chaindb,           \* the shared ChainDB: stored headers and the trunk
    store,             \* the ContentStore the driver owns
    driver,            \* which Downstream is installed
    poisoned,          \* the driver panicked while its Mutex was held
    notes,             \* notifications delivered to the driver, in order
    calls,             \* ContentStore calls made by the driver, in order
    rwlock,            \* the RwLock around the ChainDB: writer and readers
    committed,         \* the ChainDB as the last finished write left it
    writer,            \* the header download's position inside a write
    reader,            \* a ContentStore user's position inside a query
    seen               \* what the reader's queries returned, in order

pcmVars == <<min_connections, connections, dns, earlier, pc, notified, outcome,
             dnsSource, queries, iters, owed, short, seeded, asked>>

chainVars == <<chaindb, store, driver, poisoned, notes, calls>>

viewVars == <<rwlock, committed, writer, reader, seen>>

vars == <<pcmVars, chainVars, viewVars>>

Min(a, b) == IF a < b THEN a ELSE b

Max(a, b) == IF a < b THEN b ELSE a

\* the pool never holds more sessions than this
MaxPool == Max(MaxMin, MaxPeers)

Bump(n) == Min(n + 1, MaxCount)

\* ------------------------------------------------------ network engine
\* p2p.add_peer(PeerSource::Outgoing(addr)): a session future, not resolved,
\* which no task has polled yet
add_peer(addr) == [addr |-> addr, st |-> "pending", reg |-> FALSE]

\* dns_seed(network): what the DNS seeding subsystem answers
dns_seed == CASE dnsSource = "empty" -> {<<>>}
              [] dnsSource = "nonempty" -> DnsResults \ {<<>>}
              [] OTHER -> DnsResults

\* initial peer lists: Vec<SocketAddr>, duplicates allowed
PeerLists == UNION {[1..n -> Addrs] : n \in 0..MaxPeers}

\* ------------------------------------------------------------- ChainDB
\* header identifiers; the genesis header is stored by ChainDB::init
HeaderIds == {"h1", "h2", "h3"}

Genesis == "genesis"

\* content identifiers
EntryIds == {"e1", "e2"}

\* Option<T>: None is the empty tuple, Some(x) a tuple of one
None == <<>>

Some(x) == <<x>>

Last(s) == s[Len(s)]

Front(s) == SubSeq(s, 1, Len(s) - 1)

\* ChainDB after new() and init(false): the genesis header, at height 0
chaindb_new == [known |-> {Genesis}, trunk |-> <<Genesis>>]

\* ChainDB::pos_on_trunk: the height of a header of the trunk
pos_on_trunk(db, block_hash) ==
    IF \E i \in 1..Len(db.trunk) : db.trunk[i] = block_hash
    THEN Some((CHOOSE i \in 1..Len(db.trunk) : db.trunk[i] = block_hash) - 1)
    ELSE None

\* ChainDB::get_header: a stored header, on the trunk or not
chaindb_get_header(db, block_hash) ==
    IF block_hash \in db.known THEN Some(block_hash) ELSE None

\* ChainDB::header_tip: the stored tip and its height
header_tip(db) ==
    IF Len(db.trunk) > 0
    THEN Some([header |-> Last(db.trunk), height |-> Len(db.trunk) - 1])
    ELSE None

\* ------------------------------------------------- SharedChainDB (RwLock)
\* RwLock::new(ChainDB): not held
RwLock_new == [writer |-> FALSE, readers |-> 0]

\* write(): exclusive, waits for the writer and for every reader
can_write(lk) == ~lk.writer /\ lk.readers = 0

can_read_during_write(lk) == TRUE

\* read(): shared, waits only for a writer
can_read(lk) == ~lk.writer

\* -------------------------------------------------------- ChainDBTrunk
is_on_trunk_cached(block_hash) == chaindb_get_header(chaindb, block_hash) # None

is_on_trunk(block_hash) == pos_on_trunk(chaindb, block_hash) # None

get_header(block_hash) == chaindb_get_header(chaindb, block_hash)

get_height(block_hash) == pos_on_trunk(chaindb, block_hash)

get_tip ==
    IF header_tip(chaindb) # None THEN Some(header_tip(chaindb)[1].header) ELSE None

len == IF header_tip(chaindb) # None THEN header_tip(chaindb)[1].height ELSE 0

\* -------------------------------------------------------- ContentStore
\* ContentStore::new: no header recorded, no entry
ContentStore_new == [tips |-> <<>>, entries |-> {}]

\* add_header(header): the header is the store's current tip
add_header(st, header) == [st EXCEPT !.tips = Append(@, header)]

\* unwind_tip(header): drops the entries anchored to the header and restores
\* the prior tip; a header that is not the current tip changes nothing
unwind_tip(st, header) ==
    IF st.tips # <<>> /\ Last(st.tips) = header
    THEN [tips |-> Front(st.tips),
          entries |-> {e \in st.entries : e.anchor # header}]
    ELSE st

\* unwind_tip(): the older store interface, which is told no header and
\* unwinds whatever its current tip is
unwind_tip_current(st) ==
    IF st.tips # <<>> THEN unwind_tip(st, Last(st.tips)) ELSE st

\* an entry indexed by the content-ingestion logic, anchored to a position
add_entry(st, id, anchor, height) ==
    [st EXCEPT !.entries = @ \cup {[id |-> id, anchor |-> anchor, height |-> height]}]

\* ------------------------------------------- BitcoinDriver and Driver
\* what one Downstream call leaves: the store, whether expect() panicked,
\* and the store calls made
NoCall(st) == [store |-> st, panicked |-> FALSE, calls |-> <<>>]

\* block_connected: empty body
block_connected(st, block) == NoCall(st)

header_connected_ignoring(st, block, res) ==
    [store |-> IF res = "Ok" THEN add_header(st, block) ELSE st,
     panicked |-> FALSE,
     calls |-> <<[op |-> "add_header", header |-> block, res |-> res]>>]

\* header_connected: store.add_header(block).expect(..)
header_connected(st, block, res) ==
    [store |-> IF res = "Ok" THEN add_header(st, block) ELSE st,
     panicked |-> (res = "Err"),
     calls |-> <<[op |-> "add_header", header |-> block, res |-> res]>>]

block_disconnected_dropped(st, header, res) == NoCall(st)

\* BitcoinDriver::block_disconnected: store.unwind_tip(header).expect(..)
block_disconnected(st, header, res) ==
    [store |-> IF res = "Ok" THEN unwind_tip(st, header) ELSE st,
     panicked |-> (res = "Err"),
     calls |-> <<[op |-> "unwind_tip", header |-> header, res |-> res]>>]

\* Driver::block_disconnected (biadnet/main.rs): the header is discarded,
\* store.unwind_tip().expect(..)
Driver_block_disconnected(st, header, res) ==
    [store |-> IF res = "Ok" THEN unwind_tip_current(st) ELSE st,
     panicked |-> (res = "Err"),
     calls |-> <<[op |-> "unwind_tip", header |-> "(none)", res |-> res]>>]

\* the Downstream the header download calls
Downstream_block_disconnected(st, header, res) ==
    IF driver = "BitcoinDriver"
    THEN block_disconnected(st, header, res)
    ELSE Driver_block_disconnected(st, header, res)

\* BitcoinAdaptor::init / main: the chain database is opened, the driver is
\* built around a new ContentStore and handed to the header download
ChainStart ==
    /\ chaindb = chaindb_new
    /\ store = ContentStore_new
    /\ poisoned = FALSE
    /\ notes = <<>>
    /\ calls = <<>>
    /\ rwlock = RwLock_new
    /\ committed = chaindb_new
    /\ writer = [pc |-> "idle", op |-> "none", header |-> Genesis]
    /\ reader = [pc |-> "idle", query |-> "none", arg |-> Genesis]
    /\ seen = <<>>

\* ------------------------------------------------------ keep_connected
\* keep_connected(network, p2p, peers, min_connections): one session per
\* initial peer, dns empty, earlier empty; the future has not been polled
keep_connected(initial, min) ==
    /\ min_connections = min
    /\ seeded = Len(initial)
    /\ connections = [i \in 1..Len(initial) |-> add_peer(initial[i])]
    /\ asked = <<>>
    /\ dns = <<>>
    /\ earlier = {}
    /\ pc = "idle"
    /\ notified = TRUE
    /\ outcome = [result |-> "none", async |-> "none"]
    /\ queries = 0
    /\ iters = 0
    /\ owed = FALSE
    /\ short = FALSE

Init ==
    /\ dnsSource \in DnsSources
    /\ \E initial \in PeerLists, min \in 0..MaxMin : keep_connected(initial, min)
    /\ driver = "BitcoinDriver"
    /\ ChainStart

\* peers_from_db: its body is a TODO, it adds no connection
peers_from_db(conns) == conns

\* the executor polls the task: poll enters its loop, each pass of which
\* starts with peers_from_db and dns_lookup
EnterPoll ==
    /\ pc = "idle"
    /\ notified
    /\ notified' = FALSE
    /\ connections' = peers_from_db(connections)
    /\ pc' = "dns_lookup"
    /\ queries' = 0
    /\ iters' = 0
    /\ owed' = FALSE
    /\ short' = FALSE
    /\ asked' = <<"db">>
    /\ UNCHANGED <<min_connections, dns, earlier, outcome, dnsSource, seeded>>
    /\ UNCHANGED <<chainVars, viewVars>>

dns_lookup_more_or_equal(conns, min) == Len(conns) <= min

dns_lookup_more_unless_full(conns, min) == Len(conns) < MaxPool

dns_lookup_more_off_by_one(conns, min) == Len(conns) + 1 < min

dns_lookup_more_when_empty(conns, min) == Len(conns) = 0 /\ min > 0

\* the condition of dns_lookup's while loop
dns_lookup_more(conns, min) == Len(conns) < min

\* dns_lookup: the test of the while loop
DnsLookupTest ==
    /\ pc = "dns_lookup"
    /\ pc' = IF dns_lookup_more(connections, min_connections)
             THEN "dns_body" ELSE "check"
    /\ asked' = IF Last(asked) = "dns" THEN asked ELSE Append(asked, "dns")
    /\ UNCHANGED <<min_connections, connections, dns, earlier, notified,
                   outcome, dnsSource, queries, iters, owed, short, seeded>>
    /\ UNCHANGED <<chainVars, viewVars>>

dns_refresh_every_pass(known, seed) == seed

\* dns_lookup: dns_seed is asked only when no address is known
dns_refresh(known, seed) == IF Len(known) = 0 THEN seed ELSE known

pick_first(known) == {known[1]}

\* dns_lookup: self.dns[(rng.next_u64() as usize) % self.dns.len()], the
\* addresses the random index can select
pick(known) == {known[i] : i \in 1..Len(known)}

\* dns_lookup: one pass of the loop body
DnsLookupBody ==
    /\ pc = "dns_body"
    /\ \E seed \in dns_seed :
         LET known == dns_refresh(dns, seed) IN
         /\ dns' = known
         /\ queries' = IF Len(dns) = 0 THEN Bump(queries) ELSE queries
         /\ IF Len(known) > 0
            THEN /\ \E addr \in pick(known) :
                      connections' = Append(connections, add_peer(addr))
                 /\ owed' = FALSE
                 /\ short' = FALSE
            ELSE UNCHANGED <<connections, owed, short>>
    /\ iters' = Bump(iters)
    /\ pc' = "dns_lookup"
    /\ UNCHANGED <<min_connections, earlier, notified, outcome, dnsSource, seeded, asked>>
    /\ UNCHANGED <<chainVars, viewVars>>

\* the test poll makes after dns_lookup returned
no_more_peers(conns) == Len(conns) = 0

\* the value poll returns when it completes
ReadyValue == [result |-> "Ok", async |-> "Ready"]

\* the value poll returns when it suspends
PendingValue == [result |-> "Ok", async |-> "Pending"]

\* poll, after dns_lookup: complete when there is no connection
PollCheck ==
    /\ pc = "check"
    /\ IF no_more_peers(connections)
       THEN pc' = "done" /\ outcome' = ReadyValue
       ELSE pc' = "scan" /\ UNCHANGED outcome
    /\ UNCHANGED <<min_connections, connections, dns, earlier, notified,
                   dnsSource, queries, iters, owed, short, seeded, asked>>
    /\ UNCHANGED <<chainVars, viewVars>>

FirstFinished_ignoring_errors(conns) ==
    IF \E i \in 1..Len(conns) : conns[i].st = "ready"
    THEN CHOOSE i \in 1..Len(conns) :
            /\ conns[i].st = "ready"
            /\ \A j \in 1..(i - 1) : conns[j].st # "ready"
    ELSE 0

\* index of the first session that is not pending, 0 when there is none
FirstFinished(conns) ==
    IF \E i \in 1..Len(conns) : conns[i].st # "pending"
    THEN CHOOSE i \in 1..Len(conns) :
            /\ conns[i].st # "pending"
            /\ \A j \in 1..(i - 1) : conns[j].st = "pending"
    ELSE 0

Remove_swapping(s, i) ==
    [j \in 1..(Len(s) - 1) |-> IF j = i THEN s[Len(s)] ELSE s[j]]

\* Vec::remove(i)
Remove(s, i) == [j \in 1..(Len(s) - 1) |-> IF j < i THEN s[j] ELSE s[j + 1]]

Polled_without_context(conns, n) == conns

\* the sessions polled with the task's context before index n
Polled(conns, n) ==
    [j \in 1..Len(conns) |-> IF j < n /\ conns[j].st = "pending"
                             THEN [conns[j] EXCEPT !.reg = TRUE]
                             ELSE conns[j]]

\* poll: find a finished peer; remove it and loop, or return pending
PollScan ==
    /\ pc = "scan"
    /\ LET i == FirstFinished(connections) IN
       IF i # 0
       THEN /\ connections' = peers_from_db(Remove(Polled(connections, i), i))
            /\ pc' = "dns_lookup"
            /\ queries' = 0
            /\ iters' = 0
            /\ owed' = TRUE
            /\ short' = (Len(connections) - 1 < min_connections)
            /\ asked' = <<"db">>
            /\ UNCHANGED <<outcome, dns>>
       ELSE /\ connections' = Polled(connections, Len(connections) + 1)
            /\ pc' = "idle"
            /\ outcome' = PendingValue
            /\ UNCHANGED <<dns, queries, iters, owed, short, asked>>
    /\ UNCHANGED <<min_connections, earlier, notified, dnsSource, seeded>>
    /\ UNCHANGED <<chainVars, viewVars>>

\* the network engine resolves a session: the connection ended (its
\* address) or failed (an error); a session polled with the task's context
\* wakes the task
SessionResolves(i, r) ==
    /\ i \in 1..Len(connections)
    /\ connections[i].st = "pending"
    /\ connections' = [connections EXCEPT ![i].st = r]
    /\ notified' = (notified \/ connections[i].reg)
    /\ UNCHANGED <<min_connections, dns, earlier, pc, outcome, dnsSource,
                   queries, iters, owed, short, seeded, asked>>
    /\ UNCHANGED <<chainVars, viewVars>>

TaskStep == EnterPoll \/ DnsLookupTest \/ DnsLookupBody \/ PollCheck \/ PollScan

Next ==
    \/ EnterPoll
    \/ DnsLookupTest
    \/ DnsLookupBody
    \/ PollCheck
    \/ PollScan
    \/ \E i \in 1..MaxPool, r \in {"ready", "err"} : SessionResolves(i, r)

Spec == Init /\ [][Next]_vars

\* the thread pool runs a polled task until poll returns
FairSpec == Spec /\ WF_vars(TaskStep)

\* ------------------------------------------------ header download (murmel)
\* the outcome of one ContentStore call: done, or a storage failure
Results == {"Ok", "Err"}

Note(kind, header, height, dup) ==
    [kind |-> kind, header |-> header, height |-> height, dup |-> dup]

\* the driver is called under its Mutex; a panic poisons it
Deliver(note, d) ==
    /\ store' = d.store
    /\ poisoned' = d.panicked
    /\ calls' = calls \o d.calls
    /\ notes' = Append(notes, note)

Running == ~poisoned /\ Len(notes) < MaxEvents

\* a header is connected to the tip of the trunk and announced
HeaderConnected(h, res) ==
    /\ Running
    /\ pos_on_trunk(chaindb, h) = None
    /\ can_write(rwlock)
    /\ chaindb' = [known |-> chaindb.known \cup {h}, trunk |-> Append(chaindb.trunk, h)]
    /\ committed' = chaindb'
    /\ Deliver(Note("header_connected", h, Len(chaindb.trunk), FALSE),
               header_connected(store, h, res))
    /\ UNCHANGED <<driver, pcmVars, rwlock, writer, reader, seen>>

\* a block of the tip is announced
BlockConnected ==
    /\ Running
    /\ Deliver(Note("block_connected", Last(chaindb.trunk), Len(chaindb.trunk) - 1, FALSE),
               block_connected(store, Last(chaindb.trunk)))
    /\ UNCHANGED <<chaindb, driver, pcmVars, viewVars>>

\* a reorganisation retracts the tip of the trunk, most recent first
BlockDisconnected(res) ==
    /\ Running
    /\ Len(chaindb.trunk) > 1
    /\ can_write(rwlock)
    /\ chaindb' = [chaindb EXCEPT !.trunk = Front(@)]
    /\ committed' = chaindb'
    /\ Deliver(Note("block_disconnected", Last(chaindb.trunk), Len(chaindb.trunk) - 1, FALSE),
               Downstream_block_disconnected(store, Last(chaindb.trunk), res))
    /\ UNCHANGED <<driver, pcmVars, rwlock, writer, reader, seen>>

\* an upstream retry delivers the last disconnect a second time
Redelivered(res) ==
    /\ Running
    /\ notes # <<>>
    /\ Last(notes).kind = "block_disconnected"
    /\ Deliver([Last(notes) EXCEPT !.dup = TRUE],
               Downstream_block_disconnected(store, Last(notes).header, res))
    /\ UNCHANGED <<chaindb, driver, pcmVars, viewVars>>

\* the content-ingestion logic indexes an entry at a position of the trunk
\* the store has recorded
InsertEntry(id, h) ==
    /\ ~poisoned
    /\ \A e \in store.entries : e.id # id
    /\ \E i \in 1..Len(store.tips) : store.tips[i] = h
    /\ is_on_trunk(h)
    /\ store' = add_entry(store, id, h, get_height(h)[1])
    /\ UNCHANGED <<chaindb, driver, poisoned, notes, calls, pcmVars, viewVars>>

\* BitcoinAdaptor::init: keep_connected(network, p2p, vec!(), 3), with either
\* driver installed
ChainInit ==
    /\ dnsSource = "any"
    /\ keep_connected(<<>>, InitMinConnections)
    /\ driver \in {"BitcoinDriver", "Driver"}
    /\ ChainStart

ChainNext ==
    \/ \E h \in HeaderIds, res \in Results : HeaderConnected(h, res)
    \/ BlockConnected
    \/ \E res \in Results : BlockDisconnected(res)
    \/ \E res \in Results : Redelivered(res)
    \/ \E id \in EntryIds, h \in HeaderIds : InsertEntry(id, h)

ChainSpec == ChainInit /\ [][ChainNext]_vars

\* ------------------------------------- the trunk view read while written
\* the Trunk queries of ChainDBTrunk
Queries == {"is_on_trunk", "get_header", "get_height", "get_tip", "len"}

\* the header the reader asks about; headers are interchangeable, so the
\* reader follows one of them
ReadHeader == "h1"

Query(q, block_hash) ==
    CASE q = "is_on_trunk" -> is_on_trunk(block_hash)
      [] q = "get_header" -> get_header(block_hash)
      [] q = "get_height" -> get_height(block_hash)
      [] q = "get_tip" -> get_tip
      [] OTHER -> len

\* the header download takes the write lock to connect a header to the tip
\* or to retract the tip
WriteLock(op, h) ==
    /\ writer.pc = "idle"
    /\ can_write(rwlock)
    /\ \/ op = "connect" /\ pos_on_trunk(chaindb, h) = None
       \/ op = "disconnect" /\ Len(chaindb.trunk) > 1 /\ h = Last(chaindb.trunk)
    /\ rwlock' = [rwlock EXCEPT !.writer = TRUE]
    /\ writer' = [pc |-> "locked", op |-> op, header |-> h]
    /\ UNCHANGED <<chaindb, store, driver, poisoned, notes, calls, committed,
                   reader, seen, pcmVars>>

\* first half of a connect: the header is stored
StoreHeader ==
    /\ writer.pc = "locked"
    /\ writer.op = "connect"
    /\ chaindb' = [chaindb EXCEPT !.known = @ \cup {writer.header}]
    /\ writer' = [writer EXCEPT !.pc = "stored"]
    /\ UNCHANGED <<store, driver, poisoned, notes, calls, rwlock, committed,
                   reader, seen, pcmVars>>

\* second half of a connect: the trunk is extended
ExtendTrunk ==
    /\ writer.pc = "stored"
    /\ chaindb' = [chaindb EXCEPT !.trunk = Append(@, writer.header)]
    /\ writer' = [writer EXCEPT !.pc = "done"]
    /\ UNCHANGED <<store, driver, poisoned, notes, calls, rwlock, committed,
                   reader, seen, pcmVars>>

\* a disconnect: the tip is retracted
RetractTrunk ==
    /\ writer.pc = "locked"
    /\ writer.op = "disconnect"
    /\ chaindb' = [chaindb EXCEPT !.trunk = Front(@)]
    /\ writer' = [writer EXCEPT !.pc = "done"]
    /\ UNCHANGED <<store, driver, poisoned, notes, calls, rwlock, committed,
                   reader, seen, pcmVars>>

\* the write guard is dropped
WriteUnlock ==
    /\ writer.pc = "done"
    /\ rwlock' = [rwlock EXCEPT !.writer = FALSE]
    /\ committed' = chaindb
    /\ writer' = [pc |-> "idle", op |-> "none", header |-> Genesis]
    /\ UNCHANGED <<chaindb, store, driver, poisoned, notes, calls, reader, seen,
                   pcmVars>>

\* a query of ChainDBTrunk: self.chaindb.read().unwrap()
ReadLock(q, block_hash) ==
    /\ reader.pc = "idle"
    /\ Len(seen) < MaxReads
    /\ can_read(rwlock)
    /\ rwlock' = [rwlock EXCEPT !.readers = @ + 1]
    /\ reader' = [pc |-> "reading", query |-> q, arg |-> block_hash]
    /\ UNCHANGED <<chainVars, committed, writer, seen, pcmVars>>

\* ... the ChainDB is asked, the result returned and the read guard dropped
ReadQuery ==
    /\ reader.pc = "reading"
    /\ seen' = Append(seen, [query |-> reader.query, arg |-> reader.arg,
                             result |-> Query(reader.query, reader.arg),
                             complete |-> (chaindb = committed)])
    /\ rwlock' = [rwlock EXCEPT !.readers = @ - 1]
    /\ reader' = [pc |-> "idle", query |-> "none", arg |-> Genesis]
    /\ UNCHANGED <<chainVars, committed, writer, pcmVars>>

ViewNext ==
    \/ \E op \in {"connect", "disconnect"}, h \in HeaderIds : WriteLock(op, h)
    \/ StoreHeader
    \/ ExtendTrunk
    \/ RetractTrunk
    \/ WriteUnlock
    \/ \E q \in Queries : ReadLock(q, ReadHeader)
    \/ ReadQuery

ViewSpec == ChainInit /\ [][ViewNext]_vars
\* =================================================================
\* Peer Connection Manager
\* =================================================================

\* C1: when every DNS query returns nothing, min_connections >= 1 and the
\* pool is empty, the maintenance task eventually completes with the "no
\* more peers" outcome instead of looping in dns_lookup.
C1_ExhaustionDetected ==
    (dnsSource = "empty" /\ min_connections >= 1 /\ connections = <<>>)
        ~> (pc = "done")

\* C2: whenever dns_lookup returns, the pool holds at least min_connections
\* sessions; with a DNS source that always answers at least one address a
\* growth round takes at most min_connections passes of its loop.
C2_PoolConverges ==
    /\ pc = "check" => Len(connections) >= min_connections
    /\ dnsSource = "nonempty" => iters <= min_connections

\* C2 witness: a growth round filled an empty pool up to the largest target
C2_Witness ==
    /\ pc = "check"
    /\ dnsSource = "nonempty"
    /\ min_connections = MaxMin
    /\ iters = MaxMin
    /\ Len(connections) = MaxMin

\* C3: the task completes only when the pool is empty and, in that pass, the
\* DNS source was queried and answered the empty set.
C3_CompletesOnlyOnExhaustion ==
    pc = "done" => (connections = <<>> /\ queries >= 1 /\ dns = <<>>)

SourceYields == dnsSource = "nonempty" /\ min_connections >= 1

GrowthReturned == pc \in {"check", "scan", "idle"}

\* C4 as stated: with min_connections >= 1 and a DNS source that keeps
\* answering, the task never completes and every removed session is followed
\* by a newly started one before the task suspends.
C4_EveryLossReplaced ==
    SourceYields => (pc # "done" /\ (GrowthReturned => ~owed))

\* C4 amended: with min_connections >= 1 and a DNS source that keeps
\* answering, the task never completes, and every removal that leaves the
\* pool below min_connections is followed by a newly started session before
\* the task suspends.
C4_LossBelowTargetReplaced ==
    SourceYields => (pc # "done" /\ (GrowthReturned => ~short))

\* C4 witness: after an earlier suspension a session resolved, was removed,
\* and the growth round that followed started a replacement
C4_Witness ==
    /\ SourceYields
    /\ pc = "check"
    /\ outcome = PendingValue
    /\ iters >= 1
    /\ ~owed

\* the value a task of type Future<Item = (), Error = Never> completes with
\* when nothing went wrong
IsSuccessValue(v) == v.result = "Ok" /\ v.async = "Ready"

\* C5: the outcome the task produces when it stops because no peers remain
\* differs from its successful completion value.
C5_ExhaustionDistinguishable == pc = "done" => ~IsSuccessValue(outcome)

\* C10: a growth round queries DNS at most once.
C10_OneQueryPerRound == queries <= 1

\* =================================================================
\* Chain Sync Driver, Content Store, Chain Trunk View
\* =================================================================

\* every store call succeeded and no notification was delivered twice
ValidSequence == ~poisoned /\ \A i \in 1..Len(notes) : ~notes[i].dup

\* no entry is anchored to a header that is off the trunk
NoRetractedAnchor ==
    \A e \in store.entries : get_height(e.anchor) = Some(e.height)

\* an entry whose anchor stays on the trunk stays in the store
AnchoredEntriesKept ==
    \A e \in store.entries :
        pos_on_trunk(chaindb', e.anchor) = Some(e.height) => e \in store'.entries

\* C6: after any connect/disconnect sequence delivered in trunk order, no
\* entry anchored to a retracted header is in the store and every entry
\* anchored at or below the new tip is still there.
C6_ReorgConsistency ==
    /\ [](ValidSequence => NoRetractedAnchor)
    /\ [][ValidSequence' => AnchoredEntriesKept]_vars

\* C6 witness: two headers were retracted in a row and an entry anchored
\* below them is still in the store
C6_Witness ==
    /\ ValidSequence
    /\ Len(notes) >= 2
    /\ notes[Len(notes)].kind = "block_disconnected"
    /\ notes[Len(notes) - 1].kind = "block_disconnected"
    /\ store.entries # {}

\* C7: a block_disconnected delivered a second time for the same header
\* leaves the store as the first delivery left it.
C7_IdempotentUnwind ==
    [][(notes' # notes /\ Last(notes').dup /\ ~poisoned') => store' = store]_vars

\* the notifications that connected or disconnected header h
About(h) ==
    {i \in 1..Len(notes) :
        notes[i].header = h /\ notes[i].kind \in {"header_connected", "block_disconnected"}}

LastAbout(h) == notes[CHOOSE i \in About(h) : \A j \in About(h) : j <= i]

\* C8: is_on_trunk(h) holds exactly when get_height(h) is defined; the height
\* is the one h was connected at; a disconnected header is off the trunk and
\* has no height.
C8_TrunkViewConsistent ==
    \A h \in HeaderIds :
        /\ is_on_trunk(h) <=> get_height(h) # None
        /\ IF About(h) # {} /\ LastAbout(h).kind = "header_connected"
           THEN is_on_trunk(h) /\ get_height(h) = Some(LastAbout(h).height)
           ELSE ~is_on_trunk(h) /\ get_height(h) = None

\* C8 witness: one header was disconnected by a reorg and is still stored,
\* another one is on the trunk at height 2
C8_Witness ==
    \E h, g \in HeaderIds :
        /\ About(h) # {}
        /\ LastAbout(h).kind = "block_disconnected"
        /\ get_header(h) # None
        /\ get_height(g) = Some(2)

\* C9: a failed add_header or unwind_tip leaves the driver failed, and no
\* store call follows the failed one.
C9_StorageFailureStops ==
    /\ \A i \in 1..Len(calls) :
          calls[i].res = "Err" => (poisoned /\ i = Len(calls))
    /\ poisoned => (calls # <<>> /\ Last(calls).res = "Err")

\* C9 witness: unwind_tip failed after earlier calls succeeded
C9_Witness ==
    /\ poisoned
    /\ Len(calls) >= 2
    /\ Last(calls).op = "unwind_tip"

\* =================================================================
\* Peer Connection Manager: pool, suspension, selection
\* =================================================================

\* the same session, whether or not it was polled in between
SameSession(a, b) == a.addr = b.addr /\ a.st = b.st

\* the pool after the step is the pool before without the session at i
RemovedExactly(i) ==
    /\ Len(connections') = Len(connections) - 1
    /\ \A j \in 1..Len(connections') :
          SameSession(connections'[j], connections[IF j < i THEN j ELSE j + 1])

\* C11: a session leaves the pool only after it resolved, one at a time, and
\* its removal leaves every other session in the pool, in the same order.
C11_RemovedOnceWhenResolved ==
    [][Len(connections') < Len(connections) =>
          \E i \in 1..Len(connections) :
              /\ connections[i].st # "pending"
              /\ RemovedExactly(i)]_vars

\* C11 witness: a resolved session was removed from a pool that still holds
\* a pending and a resolved session
C11_Witness ==
    /\ pc = "dns_lookup"
    /\ owed
    /\ \E i, j \in 1..Len(connections) :
          connections[i].st = "pending" /\ connections[j].st # "pending"

NoneResolved == \A i \in 1..Len(connections) : connections[i].st = "pending"

\* C12: a pass in which no session resolved, the pool did not grow and the
\* pool is not empty ends with the task suspended; a pass in which a session
\* resolved ends with a further pass, not with a suspension.
C12_SuspendsWhenNothingResolved ==
    [][(pc = "scan" /\ pc' # "scan") =>
          /\ (NoneResolved /\ iters = 0 /\ connections # <<>>)
                => (pc' = "idle" /\ outcome' = PendingValue)
          /\ ~NoneResolved => (pc' = "dns_lookup" /\ outcome' = outcome)]_vars

\* C12 witness: the task is suspended after a pass that started no session
C12_Witness ==
    /\ pc = "idle"
    /\ outcome = PendingValue
    /\ iters = 0
    /\ NoneResolved
    /\ connections # <<>>

\* the first growth round (the one that had to ask DNS) of a task started
\* with no initial peer and min_connections = 3, whose DNS source answered
\* [A, B], has returned
FirstRoundOfThree ==
    /\ dnsSource = "nonempty"
    /\ seeded = 0
    /\ min_connections = 3
    /\ dns = <<"A", "B">>
    /\ pc = "check"
    /\ outcome.result = "none"
    /\ queries >= 1

PoolAddrs == {connections[i].addr : i \in 1..Len(connections)}

\* C13 as stated: after the first growth round the pool holds 3 sessions,
\* the first two to different addresses, so that A and B are both in use.
C13_EachAddressUsedFirst ==
    FirstRoundOfThree =>
        /\ Len(connections) = 3
        /\ connections[1].addr # connections[2].addr
        /\ PoolAddrs = {"A", "B"}

\* C13 amended: after the first growth round the pool holds exactly 3
\* sessions, each to A or to B, started after a single DNS query; the three
\* addresses are drawn independently and may all be the same.
C13_ThreeSessionsFromDns ==
    FirstRoundOfThree =>
        /\ Len(connections) = 3
        /\ PoolAddrs \subseteq {"A", "B"}
        /\ queries = 1
        /\ iters = 3

\* C13 witness: the first growth round started all three sessions to A
C13_Witness ==
    /\ FirstRoundOfThree
    /\ Len(connections) = 3
    /\ PoolAddrs = {"A"}

Range(s) == {s[i] : i \in 1..Len(s)}

\* C14: a session started by the growth step targets a known DNS address,
\* every known DNS address can be chosen at every selection whatever
\* happened to earlier sessions, and earlier stays empty.
C14_AnyKnownAddressSelectable ==
    /\ earlier = {}
    /\ (pc = "dns_lookup" /\ iters > 0 /\ Len(connections) > 0 /\ dns # <<>>)
          => Last(connections).addr \in Range(dns)
    /\ (pc = "dns_body" /\ dns # <<>>) =>
          \A a \in Range(dns) :
              ENABLED (DnsLookupBody /\ connections' = Append(connections, add_peer(a)))

\* C14 witness: a selection among two known addresses after a session was
\* removed
C14_Witness ==
    /\ pc = "dns_body"
    /\ dns = <<"A", "B">>
    /\ owed

Grows == Len(connections') > Len(connections)

\* C15: in every pass peers_from_db is consulted before dns_lookup, and a
\* session is started from DNS only in a pass in which the pool was still
\* below min_connections after peers_from_db.
C15_LocalSourceFirst ==
    /\ [](asked \in {<<>>, <<"db">>, <<"db", "dns">>})
    /\ [][Grows => (asked = <<"db", "dns">> /\ Len(connections) < min_connections)]_vars

\* C15 witness: DNS started a session in a pass after the first one
C15_Witness ==
    /\ asked = <<"db", "dns">>
    /\ pc = "dns_lookup"
    /\ iters >= 1
    /\ outcome = PendingValue

\* C18: whenever the task is suspended, the pool holds at least
\* min_connections sessions and at least one, every session of the pool was
\* polled with the task's context, and a session that resolved since has
\* notified the task.
C18_SuspendedWithWakers ==
    (pc = "idle" /\ outcome = PendingValue) =>
        /\ Len(connections) >= min_connections
        /\ Len(connections) >= 1
        /\ \A i \in 1..Len(connections) : connections[i].reg
        /\ ~NoneResolved => notified

\* C18 witness: the task is suspended with sessions it started during this
\* wakeup, one of which has resolved since
C18_Witness ==
    /\ pc = "idle"
    /\ outcome = PendingValue
    /\ iters >= 1
    /\ Len(connections) = MaxMin
    /\ ~NoneResolved
    /\ notified

\* C19: the pool starts with one session per initial peer, grows by one
\* session at a time and only from below min_connections, and never holds
\* more than max(number of initial peers, min_connections) sessions.
C19_PoolSizeBound ==
    /\ [](Len(connections) <= Max(seeded, min_connections))
    /\ []((pc = "idle" /\ outcome.result = "none") => Len(connections) = seeded)
    /\ [][Grows => /\ Len(connections) < min_connections
                   /\ Len(connections') = Len(connections) + 1]_vars

\* C19 witness: a pool seeded above the target has shrunk below it and was
\* refilled to the target
C19_Witness ==
    /\ seeded > min_connections
    /\ min_connections >= 1
    /\ pc = "check"
    /\ iters >= 1
    /\ Len(connections) = min_connections

\* C20: dns_seed is called only while no DNS address is known and the pool
\* is below min_connections, and a non-empty DNS set is never changed.
C20_DnsQueriedOnlyWhenEmpty ==
    /\ [][dns # <<>> => dns' = dns]_vars
    /\ [][queries' > queries =>
            (dns = <<>> /\ Len(connections) < min_connections)]_vars
    /\ [][dns' # dns => queries' > queries \/ queries = MaxCount]_vars

\* C20 witness: a later growth round started a session from the stored DNS
\* set without a query
C20_Witness ==
    /\ pc = "check"
    /\ outcome = PendingValue
    /\ iters >= 1
    /\ queries = 0
    /\ dns # <<>>

\* the notifications that are about headers, in the order received
HeaderNotes == SelectSeq(notes, LAMBDA n : n.kind # "block_connected")

\* the store operation a header notification stands for
Routed(n) ==
    [op |-> IF n.kind = "header_connected" THEN "add_header" ELSE "unwind_tip",
     header |-> n.header]

RoutedInOrder ==
    /\ Len(calls) = Len(HeaderNotes)
    /\ \A i \in 1..Len(calls) :
        /\ calls[i].op = Routed(HeaderNotes[i]).op
        /\ calls[i].header = Routed(HeaderNotes[i]).header

\* C16: the store operations made are exactly the header_connected and
\* block_disconnected notifications in the order received, one add_header or
\* unwind_tip call each, for the header of the notification; block_connected
\* makes no call.
C16_OrderPreservingRouter == RoutedInOrder

\* what holds of both drivers: one call per header notification, of the right
\* operation, in order; and BitcoinDriver passes the header on
C16_RoutedByBitcoinDriver ==
    /\ Len(calls) = Len(HeaderNotes)
    /\ \A i \in 1..Len(calls) : calls[i].op = Routed(HeaderNotes[i]).op
    /\ driver = "BitcoinDriver" => RoutedInOrder

\* C17: every query of the trunk view holds the read lock while it asks the
\* ChainDB, no write is in progress while a read lock is held, and every
\* result was computed on the ChainDB as a finished write left it.
C17_QueriesSeeCompleteState ==
    /\ reader.pc = "reading" => (rwlock.readers = 1 /\ ~rwlock.writer)
    /\ (rwlock.readers > 0 \/ writer.pc = "idle") => chaindb = committed
    /\ \A i \in 1..Len(seen) : seen[i].complete

\* C17 witness: two successive queries straddle a reorganisation: the
\* reader saw is_on_trunk(h) = true and then get_height(h) absent
C17_Witness ==
    /\ Len(seen) = 2
    /\ seen[1].query = "is_on_trunk"
    /\ seen[1].result = TRUE
    /\ seen[2].query = "get_height"
    /\ seen[2].arg = seen[1].arg
    /\ seen[2].result = None
    /\ seen[1].complete
    /\ seen[2].complete
====
